---------------------------- MODULE Spec2Model ----------------------------
(***************************************************************************)
(* A model of targets_extraction.py: extract_targets and the functions it  *)
(* calls.  Text that the program parses (display names, URLs, scan-record  *)
(* names, branch names) is a sequence of one-character strings, so that    *)
(* split / strip / substring / sort are computed as Python computes them.  *)
(* Text that the program only compares for equality (integration variant   *)
(* names, organization names, ids) is a TLA+ string.                       *)
(***************************************************************************)
EXTENDS Integers, Sequences, FiniteSets, TLC

(***************************************************************************)
(* Bounds of the model.                                                    *)
(***************************************************************************)
\* organizations in the source-organization file
MaxOrgs == 2
\* repositories listed over a whole run (all organizations together)
MaxTargets == 2
\* scan records returned for one repository
MaxProjects == 2
\* pages of one listing
MaxPages == 2

(***************************************************************************)
(* Python str operations on sequences of characters.                       *)
(***************************************************************************)
\* printable ASCII in code-point order, 0x20 .. 0x7E (the double quote, the
\* backslash and the backtick, which no text of the model uses, are spelled out)
Ascii ==
  << " ", "!", "dquote", "#", "$", "%", "&", "'", "(", ")", "*", "+", ",", "-", ".", "/",
     "0", "1", "2", "3", "4", "5", "6", "7", "8", "9", ":", ";", "<", "=", ">", "?",
     "@", "A", "B", "C", "D", "E", "F", "G", "H", "I", "J", "K", "L", "M", "N", "O",
     "P", "Q", "R", "S", "T", "U", "V", "W", "X", "Y", "Z", "[", "backslash", "]", "^", "_",
     "backtick", "a", "b", "c", "d", "e", "f", "g", "h", "i", "j", "k", "l", "m", "n", "o",
     "p", "q", "r", "s", "t", "u", "v", "w", "x", "y", "z", "{", "|", "}", "~" >>

\* ord(c)
Ord(c) == 31 + (CHOOSE i \in 1..Len(Ascii) : Ascii[i] = c)

\* s < t as Python compares str: by code point, a proper prefix first
StrLess(s, t) ==
  \E k \in 0..Len(s) :
     /\ k <= Len(t)
     /\ \A i \in 1..k : s[i] = t[i]
     /\ \/ k = Len(s) /\ k < Len(t)
        \/ k < Len(s) /\ k < Len(t) /\ Ord(s[k+1]) < Ord(t[k+1])

\* s.find(sub) + 1: the first position where sub occurs in s, 0 when none
Find(s, sub) ==
  LET hits == { i \in 1..(Len(s) - Len(sub) + 1) :
                  \A j \in 1..Len(sub) : s[i + j - 1] = sub[j] }
  IN  IF hits = {} THEN 0 ELSE CHOOSE i \in hits : \A j \in hits : i <= j

\* sub in s
Contains(sub, s) == Find(s, sub) # 0

\* s.split(sep), sep non-empty
RECURSIVE Split(_, _)
Split(s, sep) ==
  LET i == Find(s, sep)
  IN  IF i = 0 THEN << s >>
      ELSE << SubSeq(s, 1, i - 1) >> \o Split(SubSeq(s, i + Len(sep), Len(s)), sep)

\* s.split(sep, 1)
Split1(s, sep) ==
  LET i == Find(s, sep)
  IN  IF i = 0 THEN << s >>
      ELSE << SubSeq(s, 1, i - 1), SubSeq(s, i + Len(sep), Len(s)) >>

\* sep.join(parts)
RECURSIVE Join(_, _)
Join(sep, parts) ==
  IF Len(parts) = 0 THEN << >>
  ELSE IF Len(parts) = 1 THEN parts[1]
  ELSE parts[1] \o sep \o Join(sep, Tail(parts))

\* s.strip(): leading and trailing blanks removed
RECURSIVE Strip(_)
Strip(s) ==
  IF Len(s) = 0 THEN s
  ELSE IF s[1] = " " THEN Strip(Tail(s))
  ELSE IF s[Len(s)] = " " THEN Strip(SubSeq(s, 1, Len(s) - 1))
  ELSE s

\* sorted(set_of_str)
RECURSIVE Sorted(_)
Sorted(S) ==
  IF S = {} THEN << >>
  ELSE LET m == CHOOSE x \in S : \A y \in S : y = x \/ StrLess(x, y)
       IN  << m >> \o Sorted(S \ {m})

\* the set of elements of a sequence
Range(seq) == { seq[i] : i \in 1..Len(seq) }

\* all sequences over S of length at most n
SeqsUpTo(S, n) == UNION { [1..k -> S] : k \in 0..n }

(***************************************************************************)
(* Text literals.                                                          *)
(***************************************************************************)
EmptyStr == << >>
SLASH == << "/" >>
COLON == << ":" >>
s_main == << "m", "a", "i", "n" >>
s_master == << "m", "a", "s", "t", "e", "r" >>
s_unknown == << "u", "n", "k", "n", "o", "w", "n" >>
s_gitlab == << "g", "i", "t", "l", "a", "b" >>
s_gitlab_com == << "g", "i", "t", "l", "a", "b", ".", "c", "o", "m" >>
s_github_com == << "g", "i", "t", "h", "u", "b", ".", "c", "o", "m" >>

s_paren_open == << " ", "(" >>
s_paren_close == << ")" >>

\* Python None where the program compares or tests a plain string
PyNone == "None"
\* JSON null in a field the program expects to hold text
NullStr == << "null" >>
\* not x, for a plain string or None
Falsy(x) == x = PyNone \/ x = ""

\* an empty dict
EmptyDict == [k \in {} |-> k]
\* d[k] = v on a copy of d
Put(d, k, v) == [x \in DOMAIN d \cup {k} |-> IF x = k THEN v ELSE d[x]]

(***************************************************************************)
(* Configuration (module level of targets_extraction.py).                  *)
(***************************************************************************)
GITHUB_INTEGRATION_TYPES == << "github-cloud-app", "github-enterprise", "github" >>
GITLAB_INTEGRATION_TYPES == << "gitlab" >>
\* the choices of --source
SourceFilters == { "github", "github-enterprise", "github-cloud-app", "gitlab" }
GithubVariants == { "github", "github-cloud-app", "github-enterprise" }

(***************************************************************************)
(* Branch Resolver: extract_target_attributes_from_projects.               *)
(* A scan record is [name, target_reference, branch]; an attribute that    *)
(* is missing is the empty text (the code only tests it for truth).        *)
(***************************************************************************)
\* ProjectBranch without the two patterns of the scan-record name
ProjectBranchExplicitOnly(project) ==
  IF project.target_reference # EmptyStr THEN project.target_reference
  ELSE IF project.branch # EmptyStr THEN project.branch
  ELSE EmptyStr

\* the branch one scan record contributes (empty: none), lines 217-237
ProjectBranch(project) ==
  IF project.target_reference # EmptyStr THEN project.target_reference
  ELSE IF project.branch # EmptyStr THEN project.branch
  ELSE IF Contains(COLON, project.name)
    THEN LET parts == Split(project.name, COLON)
             potential_branch == Strip(parts[Len(parts)])
         IN  IF potential_branch # EmptyStr /\ ~Contains(SLASH, potential_branch)
               THEN potential_branch ELSE EmptyStr
  ELSE IF Contains(s_paren_open, project.name) /\ Contains(s_paren_close, project.name)
    THEN Strip(Split(Split(project.name, s_paren_open)[2], s_paren_close)[1])
  ELSE EmptyStr

\* the set `branches` after the loop of lines 216-241
ProjectBranches(projects) ==
  { ProjectBranch(projects[i]) : i \in 1..Len(projects) } \ { EmptyStr }

\* PrimaryBranch without the preference for main and master
PrimaryBranchSmallest(branches) == Sorted(branches)[1]

\* lines 257-262
PrimaryBranch(branches) ==
  IF s_main \in branches THEN s_main
  ELSE IF s_master \in branches THEN s_master
  ELSE Sorted(branches)[1]

\* the branches in the order the scan records give them, unsorted
BranchesAsFound(projects) ==
  LET F[i \in 0..Len(projects)] ==
        IF i = 0 THEN << >>
        ELSE LET b == ProjectBranch(projects[i])
             IN  IF b = EmptyStr \/ b \in Range(F[i-1]) THEN F[i-1] ELSE Append(F[i-1], b)
  IN  F[Len(projects)]

\* sorted(branches) of line 254
SortedBranches(projects) == Sorted(ProjectBranches(projects))

\* the dict the function returns
extract_target_attributes_from_projects(projects) ==
  LET branches == ProjectBranches(projects)
  IN  IF Len(projects) = 0 THEN EmptyDict
      ELSE IF branches = {} THEN EmptyDict
      ELSE IF Cardinality(branches) = 1
        THEN [branch |-> CHOOSE b \in branches : TRUE]
      ELSE [branches |-> SortedBranches(projects),
            primary_branch |-> PrimaryBranch(branches)]

(***************************************************************************)
(* External Identity Resolver: parsing of the display name.                *)
(***************************************************************************)
\* extract_gitlab_project_info_from_display_name accepting only namespace/name,
\* without nested groups
ParseTwoSegmentsOnly(display_name) ==
  IF display_name = EmptyStr \/ ~Contains(SLASH, display_name) THEN EmptyDict
  ELSE LET parts == Split(display_name, SLASH)
       IN  IF Len(parts) = 2
             THEN [namespace |-> parts[1], name |-> parts[2]]
             ELSE EmptyDict

\* extract_gitlab_project_info_from_display_name; EmptyDict stands for None
extract_gitlab_project_info_from_display_name(display_name) ==
  IF display_name = EmptyStr \/ ~Contains(SLASH, display_name) THEN EmptyDict
  ELSE LET parts == Split(display_name, SLASH)
       IN  IF Len(parts) >= 2
             THEN [namespace |-> Join(SLASH, SubSeq(parts, 1, Len(parts) - 1)),
                   name |-> parts[Len(parts)]]
             ELSE EmptyDict

(***************************************************************************)
(* Integration Matcher.                                                    *)
(* A repository is [id, display_name, url, integration_type]; a missing    *)
(* integration_type attribute is "".                                       *)
(***************************************************************************)
\* get_source_integration_type consulting the integration-type attribute before
\* the URL
GetSourceTypeAttributeFirst(target) ==
  IF target.integration_type \in GithubVariants THEN target.integration_type
  ELSE IF target.integration_type = "gitlab" THEN "gitlab"
  ELSE IF Contains(s_gitlab_com, target.url) \/ Contains(s_gitlab, target.url) THEN "gitlab"
  ELSE IF Contains(s_github_com, target.url) THEN "github"
  ELSE IF Contains(SLASH, target.display_name) THEN "github"
  ELSE PyNone

\* get_source_integration_type raises (TypeError: `in` on None) for a null url
SourceTypeRaises(target) == target.url = NullStr

get_source_integration_type(target) ==
  IF Contains(s_gitlab_com, target.url) \/ Contains(s_gitlab, target.url) THEN "gitlab"
  ELSE IF Contains(s_github_com, target.url) THEN "github"
  ELSE IF target.integration_type \in GithubVariants THEN target.integration_type
  ELSE IF target.integration_type = "gitlab" THEN "gitlab"
  ELSE IF Contains(SLASH, target.display_name) THEN "github"
  ELSE PyNone

\* PassesFilter without the test of the source family
FilterCredentialOnly(source_filter, source_integration_type, target_integrations) ==
  source_filter \in DOMAIN target_integrations

\* the filter step of extract_targets, lines 584-600: TRUE when no `continue` is taken
PassesFilter(source_filter, source_integration_type, target_integrations) ==
  IF source_filter \in GithubVariants
    THEN /\ source_integration_type \in GithubVariants
         /\ source_filter \in DOMAIN target_integrations
  ELSE IF source_filter = "gitlab"
    THEN /\ source_integration_type = "gitlab"
         /\ "gitlab" \in DOMAIN target_integrations
  ELSE TRUE

\* the first variant of `order` that target_integrations has, 0 when none
FirstAvailable(order, target_integrations) ==
  LET hits == { i \in 1..Len(order) : order[i] \in DOMAIN target_integrations }
  IN  IF hits = {} THEN 0 ELSE CHOOSE i \in hits : \A j \in hits : i <= j

\* the fallback of lines 452-463 alone
IntegrationByPreference(target_integrations, source_integration_type) ==
  LET g == FirstAvailable(GITHUB_INTEGRATION_TYPES, target_integrations)
      l == FirstAvailable(GITLAB_INTEGRATION_TYPES, target_integrations)
  IN  IF g # 0 THEN << "github", target_integrations[GITHUB_INTEGRATION_TYPES[g]] >>
      ELSE IF l # 0 THEN << "gitlab", target_integrations[GITLAB_INTEGRATION_TYPES[l]] >>
      ELSE << PyNone, PyNone >>

\* get_integration_type_and_id without the exact match of lines 445-450
GetIntegrationByPreferenceOnly(target_integrations, source_integration_type) ==
  IntegrationByPreference(target_integrations, source_integration_type)

\* get_integration_type_and_id: << integration_type, integration_id >>
get_integration_type_and_id(target_integrations, source_integration_type) ==
  IF /\ ~Falsy(source_integration_type)
     /\ source_integration_type \in DOMAIN target_integrations
     /\ source_integration_type \in GithubVariants
    THEN << "github", target_integrations[source_integration_type] >>
  ELSE IF /\ ~Falsy(source_integration_type)
          /\ source_integration_type \in DOMAIN target_integrations
          /\ source_integration_type = "gitlab"
    THEN << "gitlab", target_integrations[source_integration_type] >>
  ELSE IntegrationByPreference(target_integrations, source_integration_type)

(***************************************************************************)
(* Import Entry Builder.                                                   *)
(***************************************************************************)
\* the first-family addressing of lines 616-623
GithubTargetInfo(display_name) ==
  IF display_name # EmptyStr /\ Contains(SLASH, display_name)
    THEN [owner |-> Split1(display_name, SLASH)[1], name |-> Split1(display_name, SLASH)[2]]
  ELSE IF display_name # EmptyStr /\ display_name # s_unknown
    THEN [name |-> display_name]
  ELSE EmptyDict

\* create_target_entry; an empty branch stands for branch=None
create_target_entry(target_org_id, integration_id, target_info, branch, integration_type) ==
  LET target_data == [orgId |-> target_org_id, integrationId |-> integration_id,
                      exclusionGlobs |-> ""]
  IN  IF target_info # EmptyDict
        THEN Put(target_data, "target",
                 IF branch # EmptyStr THEN Put(target_info, "branch", branch)
                 ELSE target_info)
      ELSE target_data

(***************************************************************************)
(* The inputs of a run: texts and records the environment can supply.      *)
(***************************************************************************)
s_dev == << "d", "e", "v" >>
s_rel == << "r", "e", "l" >>
s_w == << "w" >>
s_p == << "p" >>
s_a_w == << "a", "/", "w" >>
s_g_s_p == << "g", "/", "s", "/", "p" >>
s_w_main == << "w", ":", "m", "a", "i", "n" >>
s_w_dev == << "w", ":", "d", "e", "v" >>
s_w_rel_paren == << "w", " ", "(", "r", "e", "l", ")" >>
s_h_x_rel_paren == << "h", ":", "/", "x", " ", "(", "r", "e", "l", ")" >>
s_url_github == << "g", "i", "t", "h", "u", "b", ".", "c", "o", "m", "/", "a", "/", "w" >>
s_url_gitlab == << "g", "i", "t", "l", "a", "b", ".", "c", "o", "m", "/", "g", "/", "s", "/", "p" >>

\* names and ids of the organizations of snyk-source-orgs.json, in file order
OrgNames == << "Acme", "Beta", "Gamma", "Delta" >>
SourceOrgIds == << "src-1", "src-2", "src-3", "src-4" >>
DestOrgIds == << "org-1", "org-2", "org-3", "org-4" >>

\* integration maps of a destination organization (snyk-created-orgs.json)
IntegrationsAll ==
  ("github-cloud-app" :> "int-c") @@ ("github" :> "int-g") @@ ("gitlab" :> "int-l")
IntegrationsEnterprise ==
  ("github-enterprise" :> "int-e") @@ ("gitlab" :> "")
IntegrationCatalog == { IntegrationsAll, IntegrationsEnterprise }

\* repositories of the source listing API
T_github == [id |-> "t-gh", display_name |-> s_a_w, url |-> s_url_github, integration_type |-> ""]
T_enterprise == [id |-> "t-ghe", display_name |-> EmptyStr, url |-> EmptyStr,
                 integration_type |-> "github-enterprise"]
T_gitlab == [id |-> "t-gl", display_name |-> s_g_s_p, url |-> s_url_gitlab, integration_type |-> ""]
T_gitlab_flat == [id |-> "t-glf", display_name |-> s_p, url |-> EmptyStr, integration_type |-> "gitlab"]
T_unknown == [id |-> "t-unk", display_name |-> s_w, url |-> EmptyStr, integration_type |-> ""]
T_null == [id |-> "t-null", display_name |-> s_a_w, url |-> NullStr, integration_type |-> ""]
TargetCatalog == { T_github, T_enterprise, T_gitlab, T_gitlab_flat, T_unknown, T_null }
TargetsBasic == { T_github, T_enterprise, T_gitlab, T_null }

\* scan records of the source listing API
P_ref_main == [name |-> s_w, target_reference |-> s_main, branch |-> EmptyStr]
P_branch_dev == [name |-> s_w, target_reference |-> EmptyStr, branch |-> s_dev]
P_name_main == [name |-> s_w_main, target_reference |-> EmptyStr, branch |-> EmptyStr]
P_name_paren == [name |-> s_w_rel_paren, target_reference |-> EmptyStr, branch |-> EmptyStr]
P_ref_master_named == [name |-> s_w_dev, target_reference |-> s_master, branch |-> EmptyStr]
P_ref_over_branch == [name |-> s_w, target_reference |-> s_rel, branch |-> s_dev]
P_colon_url == [name |-> s_h_x_rel_paren, target_reference |-> EmptyStr, branch |-> EmptyStr]
P_plain == [name |-> s_w, target_reference |-> EmptyStr, branch |-> EmptyStr]
ProjectCatalog ==
  { P_ref_main, P_branch_dev, P_name_main, P_name_paren, P_ref_master_named,
    P_ref_over_branch, P_colon_url, P_plain }
ProjectListsBasic == { << >>, << P_ref_main >>, << P_ref_main, P_plain, P_branch_dev >> }

\* the records of the two end-to-end scenarios
s_develop == << "d", "e", "v", "e", "l", "o", "p" >>
s_acme == << "a", "c", "m", "e" >>
s_widgets == << "w", "i", "d", "g", "e", "t", "s" >>
s_acme_widgets == s_acme \o SLASH \o s_widgets
s_widgets_main == s_widgets \o COLON \o s_main
s_widgets_develop == s_widgets \o COLON \o s_develop
s_group_sub == << "g", "r", "o", "u", "p", "/", "s", "u", "b" >>
s_project == << "p", "r", "o", "j", "e", "c", "t" >>
s_group_sub_project == s_group_sub \o SLASH \o s_project
T_widgets == [id |-> "t-w", display_name |-> s_acme_widgets, url |-> EmptyStr,
              integration_type |-> ""]
T_widgets_url == [id |-> "t-wu", display_name |-> s_acme_widgets,
                  url |-> s_github_com \o SLASH \o s_acme_widgets, integration_type |-> ""]
T_nested == [id |-> "t-n", display_name |-> s_group_sub_project, url |-> EmptyStr,
             integration_type |-> "gitlab"]
TargetsScenario == { T_widgets, T_widgets_url, T_nested, T_gitlab_flat }
P_widgets_main == [name |-> s_widgets_main, target_reference |-> EmptyStr, branch |-> EmptyStr]
P_widgets_develop ==
  [name |-> s_widgets_develop, target_reference |-> EmptyStr, branch |-> EmptyStr]
ProjectsScenario == { P_widgets_main, P_widgets_develop }
OrgDataGithub == [orgId |-> "org-123", integrations |-> ("github" :> "int-1")]
OrgDataGitlab == [orgId |-> "org-123", integrations |-> ("gitlab" :> "int-2")]

\* repositories with every combination of the signals of the source family
s_url_both == s_github_com \o SLASH \o s_gitlab
FamilyUrls == { EmptyStr, s_url_github, s_url_gitlab, s_url_both }
FamilyAttributes ==
  { "", "github", "github-cloud-app", "github-enterprise", "gitlab", "bitbucket" }
FamilyNames == { EmptyStr, s_w, s_a_w }
TargetsFamily ==
  { [id |-> "t-f", display_name |-> n, url |-> u, integration_type |-> a] :
      n \in FamilyNames, u \in FamilyUrls, a \in FamilyAttributes }
\* a destination organization with a credential for every filter value
IntegrationsFour ==
  ("github-cloud-app" :> "int-c") @@ ("github-enterprise" :> "int-e")
    @@ ("github" :> "int-g") @@ ("gitlab" :> "int-l")

\* answers of the external lookup: status 0 is a network-level exception;
\* remaining / retry_after / id are {} when the header or field is absent
Response(status, remaining, retry_after, id) ==
  [status |-> status, remaining |-> remaining, retry_after |-> retry_after, id |-> id]
ResponsesBasic ==
  { Response(200, {}, {}, {42}), Response(404, {}, {}, {}), Response(429, {}, {}, {}) }
\* every status class, with and without the quota and Retry-After headers
ResponsesAll ==
  { Response(0, {}, {}, {}) }
  \cup { Response(200, q, {}, id) : q \in { {}, {5}, {50} }, id \in { {}, {0}, {42} } }
  \cup { Response(404, q, {}, {}) : q \in { {}, {5}, {50} } }
  \cup { Response(429, q, ra, {}) : q \in { {}, {5}, {50} }, ra \in { {}, {7} } }
  \cup { Response(500, q, {}, {}) : q \in { {}, {5}, {50} } }

(***************************************************************************)
(* Paginated Fetcher: get_targets_for_org and get_projects_for_target.     *)
(* The listing API is a sequence of pages; the first request is for page   *)
(* 1, the "next" link of a page is the position of another page, 0 when    *)
(* the page has none.                                                      *)
(***************************************************************************)
\* a page whose request fails (raise_for_status, or a network error)
FailedPage == [ok |-> FALSE, data |-> << >>, next |-> 0]
\* a page that answers with the items `data` and the link `next`
Page(data, next) == [ok |-> TRUE, data |-> data, next |-> next]

\* FollowPages returning what it gathered when a page fails
RECURSIVE FollowPagesKeepsPartial(_, _, _, _)
FollowPagesKeepsPartial(server, url, all_items, requests) ==
  IF url = 0
    THEN [ok |-> TRUE, data |-> all_items, requests |-> requests]
  ELSE IF ~server[url].ok
    THEN [ok |-> TRUE, data |-> all_items, requests |-> Append(requests, url)]
  ELSE FollowPagesKeepsPartial(server, server[url].next, all_items \o server[url].data,
                               Append(requests, url))

\* the loop `while url:` from the page `url` on, with the items gathered and the
\* requests issued so far: [ok: the call returns (FALSE: it raises), data: the
\* list returned, requests: the pages requested, in order]
RECURSIVE FollowPages(_, _, _, _)
FollowPages(server, url, all_items, requests) ==
  IF url = 0
    THEN [ok |-> TRUE, data |-> all_items, requests |-> requests]
  ELSE IF ~server[url].ok
    THEN [ok |-> FALSE, data |-> << >>, requests |-> Append(requests, url)]
  ELSE FollowPages(server, server[url].next, all_items \o server[url].data,
                   Append(requests, url))

get_targets_for_org(server) == FollowPages(server, 1, << >>, << >>)
get_projects_for_target(server) == FollowPages(server, 1, << >>, << >>)

\* no paginated fetch was made yet for the unit at hand
NoFetch == [kind |-> "none", server |-> << >>, requests |-> << >>]

(***************************************************************************)
(* State.                                                                  *)
(***************************************************************************)
VARIABLES
  source_filter,          \* args.source
  gitlab_token,           \* GITLAB_API_TOKEN is set
  target_org_mapping,     \* get_target_org_mapping(): name -> [orgId, integrations]
  all_source_orgs,        \* get_source_orgs_from_json(): sequence of [id, name]
  source_orgs_to_process, \* lines 539-546
  pc,                     \* where extract_targets stands
  org_i,                  \* position of source_org in source_orgs_to_process
  targets,                \* the listing of the current organization
  t_i,                    \* position of target in targets
  target_info,            \* line 615
  attempt,                \* get_gitlab_project_id: the loop variable
  gl_log,                 \* get_gitlab_project_id: requests issued and sleeps taken
  project_id,             \* what get_gitlab_project_id returned: {} (None) or {id}
  projects,               \* what get_projects_for_target returned
  projects_failed,        \* the except of line 644 was taken for this target
  project_attributes,     \* line 642 / 646
  skip_why,               \* which `continue` left this repository ("" when none)
  warned,                 \* the "may fail import" warnings printed for this repository
  fetched,                \* the last paginated fetch: what it ran against, the pages
                          \* it requested
  all_targets,            \* the output collection
  added,                  \* the "Added target" lines, one per entry appended
  failed_orgs,            \* the except of line 712: [org, at], at = 0 for the listing
                          \* fetch, else the position of the repository that raised
  output,                 \* documents written to snyk-import-targets.json
  listed                  \* repositories listed so far in the run (bounded by MaxTargets)

vars == << source_filter, gitlab_token, target_org_mapping, all_source_orgs,
           source_orgs_to_process, pc, org_i, targets, t_i, target_info, attempt,
           gl_log, project_id, projects, projects_failed, project_attributes,
           skip_why, warned, fetched, all_targets, added, failed_orgs, output, listed >>

inputs == << source_filter, gitlab_token, target_org_mapping, all_source_orgs >>
target_locals == << target_info, attempt, gl_log, project_id, projects, projects_failed,
                    project_attributes, skip_why, warned, fetched >>

(***************************************************************************)
(* Locals of extract_targets that are functions of the state.              *)
(***************************************************************************)
source_org == source_orgs_to_process[org_i]
source_org_name == source_org.attributes.name
target_org_data == target_org_mapping[source_org_name]
target_org_id == target_org_data.orgId
target_integrations == target_org_data.integrations
target == targets[t_i]
display_name == target.display_name
source_integration_type == get_source_integration_type(target)
\* line 605
integration_type == get_integration_type_and_id(target_integrations, source_filter)[1]
integration_id == get_integration_type_and_id(target_integrations, source_filter)[2]

\* lines 539-546
OrgsToProcess(orgs, mapping) ==
  LET F[i \in 0..Len(orgs)] ==
        IF i = 0 THEN << >>
        ELSE IF orgs[i].name \in DOMAIN mapping
          THEN Append(F[i-1], [id |-> orgs[i].id, attributes |-> [name |-> orgs[i].name]])
          ELSE F[i-1]
  IN  F[Len(orgs)]

(***************************************************************************)
(* Initial states: the inputs of the run.                                  *)
(***************************************************************************)
SourceOrgs(n) == [i \in 1..n |-> [id |-> SourceOrgIds[i], name |-> OrgNames[i]]]

\* the organization data a mapping file can hold for the i-th organization
OrgData ==
  [i \in 1..Len(DestOrgIds) |->
     { [orgId |-> DestOrgIds[i], integrations |-> m] : m \in IntegrationCatalog }]
\* the same, and an entry whose "id" is the empty string
OrgDataAny ==
  [i \in 1..Len(DestOrgIds) |->
     OrgData[i] \cup { [orgId |-> "", integrations |-> IntegrationsAll] }]

\* the mappings get_target_org_mapping can return for the first n organizations,
\* Data[i] being what the file can hold for the i-th: any of them may be missing
Mappings(n, Data) ==
  UNION { { f \in [S -> UNION { Data[i] : i \in 1..n }] :
              \A i \in 1..n : OrgNames[i] \in S => f[OrgNames[i]] \in Data[i] } :
          S \in SUBSET { OrgNames[i] : i \in 1..n } }

InitLocals ==
  /\ pc = "start"
  /\ source_orgs_to_process = << >>
  /\ org_i = 0
  /\ targets = << >>
  /\ t_i = 0
  /\ target_info = EmptyDict
  /\ attempt = 0
  /\ gl_log = << >>
  /\ project_id = {}
  /\ projects = << >>
  /\ projects_failed = FALSE
  /\ project_attributes = EmptyDict
  /\ skip_why = ""
  /\ warned = << >>
  /\ fetched = NoFetch
  /\ all_targets = << >>
  /\ added = << >>
  /\ failed_orgs = {}
  /\ output = << >>
  /\ listed = 0

Init ==
  /\ source_filter \in SourceFilters
  /\ gitlab_token \in (IF source_filter = "gitlab" THEN BOOLEAN ELSE { TRUE })
  /\ all_source_orgs \in { SourceOrgs(0), SourceOrgs(MaxOrgs) }
  /\ target_org_mapping \in (IF all_source_orgs = << >> THEN Mappings(1, OrgData)
                             ELSE Mappings(MaxOrgs, OrgData))
  /\ InitLocals

(***************************************************************************)
(* Actions: the steps of extract_targets.                                  *)
(***************************************************************************)
ResetTargetLocals ==
  /\ target_info' = EmptyDict
  /\ attempt' = 0
  /\ gl_log' = << >>
  /\ project_id' = {}
  /\ projects' = << >>
  /\ projects_failed' = FALSE
  /\ project_attributes' = EmptyDict
  /\ skip_why' = ""
  /\ warned' = << >>
  /\ fetched' = NoFetch

\* lines 525-550: load the two input files, keep the organizations that are mapped
Start ==
  /\ pc = "start"
  /\ IF DOMAIN target_org_mapping = {} \/ Len(all_source_orgs) = 0
       THEN /\ pc' = "returned"
            /\ UNCHANGED << source_orgs_to_process, org_i >>
       ELSE /\ source_orgs_to_process' = OrgsToProcess(all_source_orgs, target_org_mapping)
            /\ org_i' = 1
            /\ pc' = "org"
  /\ UNCHANGED << inputs, targets, t_i, target_locals, all_targets, added, failed_orgs,
                  output, listed >>

\* line 553: the loop over source_orgs_to_process
OrgLoop ==
  /\ pc = "org"
  /\ pc' = IF org_i > Len(source_orgs_to_process) THEN "write" ELSE "fetch_targets"
  /\ UNCHANGED << inputs, source_orgs_to_process, org_i, targets, t_i, target_locals,
                  all_targets, added, failed_orgs, output, listed >>

\* the one-page listings: the request fails (raise_for_status, a network error),
\* or it answers with the items and no next link
Failure == << FailedPage >>
Items(d) == << Page(d, 0) >>
\* the failure, or at most n items drawn from Catalog
Answers(Catalog, n) == { Failure } \cup { Items(d) : d \in SeqsUpTo(Catalog, n) }
\* the failure, or one of the listings of Listings
AnswersOf(Listings) == { Failure } \cup { Items(d) : d \in Listings }

\* the locals of the repository loop that a listing fetch leaves alone
target_locals_kept == << target_info, attempt, gl_log, project_id, projects, projects_failed,
                         project_attributes, skip_why, warned >>

\* FetchTargets with a failed listing fetch ending the run
FetchTargetsAborts(TargetAnswers) ==
  /\ pc = "fetch_targets"
  /\ \E server \in TargetAnswers :
       LET answer == get_targets_for_org(server)
       IN  /\ fetched' = [kind |-> "targets", server |-> server,
                          requests |-> answer.requests]
           /\ IF answer.ok
                THEN /\ targets' = answer.data
                     /\ t_i' = 1
                     /\ listed' = listed + Len(answer.data)
                     /\ pc' = "target"
                     /\ UNCHANGED << org_i, failed_orgs >>
                ELSE /\ failed_orgs' = failed_orgs \cup { [org |-> org_i, at |-> 0] }
                     /\ pc' = "returned"
                     /\ UNCHANGED << org_i, targets, t_i, listed >>
  /\ UNCHANGED << inputs, source_orgs_to_process, target_locals_kept, all_targets, added,
                  output >>

\* lines 567-570 and the except of 712-714: TargetAnswers are the listings the
\* API may serve
FetchTargets(TargetAnswers) ==
  /\ pc = "fetch_targets"
  /\ \E server \in TargetAnswers :
       LET answer == get_targets_for_org(server)
       IN  /\ fetched' = [kind |-> "targets", server |-> server,
                          requests |-> answer.requests]
           /\ IF answer.ok
                THEN /\ targets' = answer.data
                     /\ t_i' = 1
                     /\ listed' = listed + Len(answer.data)
                     /\ pc' = "target"
                     /\ UNCHANGED << org_i, failed_orgs >>
                ELSE /\ failed_orgs' = failed_orgs \cup { [org |-> org_i, at |-> 0] }
                     /\ org_i' = org_i + 1
                     /\ pc' = "org"
                     /\ UNCHANGED << targets, t_i, listed >>
  /\ UNCHANGED << inputs, source_orgs_to_process, target_locals_kept, all_targets, added,
                  output >>

\* the `continue` the filter step takes, "" when it takes none (lines 584-600)
FilterSkip(filter, source_type, integrations) ==
  IF filter \in GithubVariants
    THEN IF source_type \notin GithubVariants THEN "source"
         ELSE IF filter \notin DOMAIN integrations THEN "integration"
         ELSE ""
  ELSE IF filter = "gitlab"
    THEN IF source_type # "gitlab" THEN "source"
         ELSE IF "gitlab" \notin DOMAIN integrations THEN "integration"
         ELSE ""
  ELSE ""

\* FilterTarget with the except of line 712 discarding the entries the interrupted
\* organization had produced
FilterTargetRollsBack ==
  /\ pc = "target"
  /\ IF t_i > Len(targets)
       THEN \* the listing is exhausted: next organization
            /\ org_i' = org_i + 1
            /\ pc' = "org"
            /\ UNCHANGED << target_info, attempt, gl_log, skip_why, failed_orgs,
                            all_targets, added >>
     ELSE IF SourceTypeRaises(target)
       THEN \* line 581 raises; caught at line 712, the organization is left
            /\ failed_orgs' = failed_orgs \cup { [org |-> org_i, at |-> t_i] }
            /\ org_i' = org_i + 1
            /\ pc' = "org"
            /\ LET earlier == Cardinality({ k \in 1..Len(added) : added[k].org # org_i })
               IN  /\ all_targets' = SubSeq(all_targets, 1, earlier)
                   /\ added' = SubSeq(added, 1, earlier)
            /\ UNCHANGED << target_info, attempt, gl_log, skip_why >>
     ELSE IF ~PassesFilter(source_filter, source_integration_type, target_integrations)
       THEN \* continue, lines 588 / 592 / 596 / 600
            /\ skip_why' = FilterSkip(source_filter, source_integration_type,
                                      target_integrations)
            /\ pc' = "skipped"
            /\ UNCHANGED << org_i, target_info, attempt, gl_log, failed_orgs,
                            all_targets, added >>
     ELSE IF Falsy(integration_id)
       THEN \* continue, line 610
            /\ skip_why' = "no-integration"
            /\ pc' = "skipped"
            /\ UNCHANGED << org_i, target_info, attempt, gl_log, failed_orgs,
                            all_targets, added >>
     ELSE IF integration_type = "github"
       THEN /\ target_info' = GithubTargetInfo(display_name)
            /\ pc' = "fetch_projects"
            /\ UNCHANGED << org_i, attempt, gl_log, skip_why, failed_orgs,
                            all_targets, added >>
     ELSE IF extract_gitlab_project_info_from_display_name(display_name) = EmptyDict
       THEN \* continue, line 637
            /\ skip_why' = "parse"
            /\ pc' = "skipped"
            /\ UNCHANGED << org_i, target_info, attempt, gl_log, failed_orgs,
                            all_targets, added >>
     ELSE \* line 629: call get_gitlab_project_id
            /\ attempt' = 0
            /\ gl_log' = << >>
            /\ pc' = "lookup"
            /\ UNCHANGED << org_i, target_info, skip_why, failed_orgs,
                            all_targets, added >>
  /\ UNCHANGED << inputs, source_orgs_to_process, targets, t_i, project_id, projects,
                  projects_failed, project_attributes, warned, fetched, output, listed >>

\* lines 573-637 up to the first request: the filter, the credential, the addressing
FilterTarget ==
  /\ pc = "target"
  /\ IF t_i > Len(targets)
       THEN \* the listing is exhausted: next organization
            /\ org_i' = org_i + 1
            /\ pc' = "org"
            /\ UNCHANGED << target_info, attempt, gl_log, skip_why, failed_orgs >>
     ELSE IF SourceTypeRaises(target)
       THEN \* line 581 raises; caught at line 712, the organization is left
            /\ failed_orgs' = failed_orgs \cup { [org |-> org_i, at |-> t_i] }
            /\ org_i' = org_i + 1
            /\ pc' = "org"
            /\ UNCHANGED << target_info, attempt, gl_log, skip_why >>
     ELSE IF ~PassesFilter(source_filter, source_integration_type, target_integrations)
       THEN \* continue, lines 588 / 592 / 596 / 600
            /\ skip_why' = FilterSkip(source_filter, source_integration_type,
                                      target_integrations)
            /\ pc' = "skipped"
            /\ UNCHANGED << org_i, target_info, attempt, gl_log, failed_orgs >>
     ELSE IF Falsy(integration_id)
       THEN \* continue, line 610
            /\ skip_why' = "no-integration"
            /\ pc' = "skipped"
            /\ UNCHANGED << org_i, target_info, attempt, gl_log, failed_orgs >>
     ELSE IF integration_type = "github"
       THEN /\ target_info' = GithubTargetInfo(display_name)
            /\ pc' = "fetch_projects"
            /\ UNCHANGED << org_i, attempt, gl_log, skip_why, failed_orgs >>
     ELSE IF extract_gitlab_project_info_from_display_name(display_name) = EmptyDict
       THEN \* continue, line 637
            /\ skip_why' = "parse"
            /\ pc' = "skipped"
            /\ UNCHANGED << org_i, target_info, attempt, gl_log, failed_orgs >>
     ELSE \* line 629: call get_gitlab_project_id
            /\ attempt' = 0
            /\ gl_log' = << >>
            /\ pc' = "lookup"
            /\ UNCHANGED << org_i, target_info, skip_why, failed_orgs >>
  /\ UNCHANGED << inputs, source_orgs_to_process, targets, t_i, project_id, projects,
                  projects_failed, project_attributes, warned, fetched, all_targets, added,
                  output, listed >>

\* get_gitlab_project_id, lines 336-338
max_retries == 3
base_delay == 1
\* 2 ** n
RECURSIVE Pow2(_)
Pow2(n) == IF n = 0 THEN 1 ELSE 2 * Pow2(n - 1)

\* what gl_log records: a request (with the value of `attempt`), the answer to
\* it, a call of time.sleep
Request(k) == [op |-> "request", k |-> k]
Answer(response) == [op |-> "response", response |-> response]
Sleep(seconds) == [op |-> "sleep", seconds |-> seconds]

\* lines 345-348: the cooldown after a response with a low remaining quota
Cooldown(response) ==
  IF response.remaining # {} /\ (CHOOSE n \in response.remaining : TRUE) < 10
    THEN << Sleep(2) >> ELSE << >>

\* RetryAfter without the Retry-After header
RetryAfterIgnoresHeader(response, k) == base_delay * Pow2(k)

\* line 361
RetryAfter(response, k) ==
  IF response.retry_after # {} THEN CHOOSE n \in response.retry_after : TRUE
  ELSE base_delay * Pow2(k)

\* HandleResponse with a constant delay before the retry of an error status
HandleResponseFixedDelay(k, response) ==
  IF response.status = 200
    THEN [log |-> << >>, returns |-> TRUE, id |-> response.id]
  ELSE IF response.status = 404
    THEN [log |-> << >>, returns |-> TRUE, id |-> {}]
  ELSE IF response.status = 429
    THEN IF k < max_retries - 1
           THEN [log |-> << Sleep(RetryAfter(response, k)) >>, returns |-> FALSE, id |-> {}]
           ELSE [log |-> << >>, returns |-> TRUE, id |-> {}]
  ELSE IF k < max_retries - 1
    THEN [log |-> << Sleep(base_delay) >>, returns |-> FALSE, id |-> {}]
    ELSE [log |-> << >>, returns |-> TRUE, id |-> {}]

\* HandleResponse with a 404 answer retried like any other error status
HandleResponseRetries404(k, response) ==
  IF response.status = 200
    THEN [log |-> << >>, returns |-> TRUE, id |-> response.id]
  ELSE IF response.status = 429
    THEN IF k < max_retries - 1
           THEN [log |-> << Sleep(RetryAfter(response, k)) >>, returns |-> FALSE, id |-> {}]
           ELSE [log |-> << >>, returns |-> TRUE, id |-> {}]
  ELSE IF k < max_retries - 1
    THEN [log |-> << Sleep(base_delay * Pow2(k)) >>, returns |-> FALSE, id |-> {}]
    ELSE [log |-> << >>, returns |-> TRUE, id |-> {}]

\* HandleResponse without the `attempt < max_retries - 1` test of line 363
HandleResponseSleepsOnLast(k, response) ==
  IF response.status = 200
    THEN [log |-> << >>, returns |-> TRUE, id |-> response.id]
  ELSE IF response.status = 404
    THEN [log |-> << >>, returns |-> TRUE, id |-> {}]
  ELSE IF response.status = 429
    THEN [log |-> << Sleep(RetryAfter(response, k)) >>, returns |-> k >= max_retries - 1,
          id |-> {}]
  ELSE IF k < max_retries - 1
    THEN [log |-> << Sleep(base_delay * Pow2(k)) >>, returns |-> FALSE, id |-> {}]
    ELSE [log |-> << >>, returns |-> TRUE, id |-> {}]

\* what the code does with the answer to request k, after the cooldown:
\* [log: the sleep taken, returns: the function returns, id: what it returns]
HandleResponse(k, response) ==
  IF response.status = 200
    THEN [log |-> << >>, returns |-> TRUE, id |-> response.id]
  ELSE IF response.status = 404
    THEN [log |-> << >>, returns |-> TRUE, id |-> {}]
  ELSE IF response.status = 429
    THEN IF k < max_retries - 1
           THEN [log |-> << Sleep(RetryAfter(response, k)) >>, returns |-> FALSE, id |-> {}]
           ELSE [log |-> << >>, returns |-> TRUE, id |-> {}]
  ELSE IF k < max_retries - 1
    THEN [log |-> << Sleep(base_delay * Pow2(k)) >>, returns |-> FALSE, id |-> {}]
    ELSE [log |-> << >>, returns |-> TRUE, id |-> {}]

\* one pass of the loop of lines 340-386 (or the return of line 320)
LookupStep(token, k, response) ==
  IF ~token THEN [log |-> << >>, returns |-> TRUE, id |-> {}]
  ELSE IF response.status = 0
    THEN \* requests.get raised: lines 379-386
         IF k < max_retries - 1
           THEN [log |-> << Request(k), Answer(response), Sleep(base_delay * Pow2(k)) >>,
                 returns |-> FALSE, id |-> {}]
           ELSE [log |-> << Request(k), Answer(response) >>, returns |-> TRUE, id |-> {}]
  ELSE [log |-> << Request(k), Answer(response) >> \o Cooldown(response)
                 \o HandleResponse(k, response).log,
        returns |-> HandleResponse(k, response).returns,
        id |-> HandleResponse(k, response).id]

\* get_gitlab_project_id: one request and what the code does with its answer
LookupAttempt(Responses) ==
  /\ pc = "lookup"
  /\ \E response \in Responses :
       LET step == LookupStep(gitlab_token, attempt, response)
       IN  /\ gl_log' = gl_log \o step.log
           /\ IF step.returns
                THEN /\ project_id' = step.id
                     /\ pc' = "lookup_return"
                     /\ UNCHANGED attempt
                ELSE /\ attempt' = attempt + 1
                     /\ UNCHANGED << pc, project_id >>
  /\ UNCHANGED << inputs, source_orgs_to_process, org_i, targets, t_i, target_info,
                  projects, projects_failed, project_attributes, skip_why, warned, fetched,
                  all_targets, added, failed_orgs, output, listed >>

\* `if project_id:` of line 630
Truthy(id) == id # {} /\ id # { 0 }

\* AfterLookup without the `continue` of line 634
AfterLookupFetchesAnyway ==
  /\ pc = "lookup_return"
  /\ target_info' = IF Truthy(project_id) THEN [id |-> CHOOSE n \in project_id : TRUE]
                    ELSE target_info
  /\ pc' = "fetch_projects"
  /\ UNCHANGED << attempt, gl_log, project_id, skip_why >>
  /\ UNCHANGED << inputs, source_orgs_to_process, org_i, targets, t_i, projects,
                  projects_failed, project_attributes, warned, fetched, all_targets, added,
                  failed_orgs, output, listed >>

\* lines 630-634
AfterLookup ==
  /\ pc = "lookup_return"
  /\ IF Truthy(project_id)
       THEN /\ target_info' = [id |-> CHOOSE n \in project_id : TRUE]
            /\ pc' = "fetch_projects"
            /\ UNCHANGED << attempt, gl_log, project_id, skip_why >>
       ELSE \* continue, line 634
            /\ skip_why' = "lookup"
            /\ pc' = "skipped"
            /\ UNCHANGED << target_info, attempt, gl_log, project_id >>
  /\ UNCHANGED << inputs, source_orgs_to_process, org_i, targets, t_i, projects,
                  projects_failed, project_attributes, warned, fetched, all_targets, added,
                  failed_orgs, output, listed >>

\* lines 640-646: ProjectAnswers are the listings the API may serve
FetchProjects(ProjectAnswers) ==
  /\ pc = "fetch_projects"
  /\ \E server \in ProjectAnswers :
       LET answer == get_projects_for_target(server)
       IN  /\ fetched' = [kind |-> "projects", server |-> server,
                          requests |-> answer.requests]
           /\ projects' = answer.data
           /\ projects_failed' = ~answer.ok
           /\ project_attributes' =
                IF answer.ok THEN extract_target_attributes_from_projects(answer.data)
                ELSE EmptyDict
  /\ pc' = "build"
  /\ UNCHANGED << inputs, source_orgs_to_process, org_i, targets, t_i, target_info, attempt,
                  gl_log, project_id, skip_why, warned, all_targets, added, failed_orgs,
                  output, listed >>

\* EntryBranches with the else of line 688 left out
EntryBranchesDropsEmpty(attrs) ==
  IF attrs = EmptyDict THEN << >>
  ELSE IF "branch" \in DOMAIN attrs THEN << attrs.branch >>
  ELSE attrs.branches

\* the branches the entries of this repository are built for, in order
\* (an empty text: the entry built with branch None, line 694)
EntryBranches(attrs) ==
  IF attrs = EmptyDict THEN << EmptyStr >>
  ELSE IF "branch" \in DOMAIN attrs THEN << attrs.branch >>
  ELSE attrs.branches

\* the entries appended by lines 649-710
NewEntries(attrs, org_id, int_id, info, int_type) ==
  [k \in 1..Len(EntryBranches(attrs)) |->
     create_target_entry(org_id, int_id, info, EntryBranches(attrs)[k], int_type)]

\* the "Added target" lines printed with them (lines 665, 686, 710)
NewLines(attrs, org, t, repo) ==
  [k \in 1..Len(EntryBranches(attrs)) |->
     [org |-> org, t |-> t, repo |-> repo, branch |-> EntryBranches(attrs)[k],
      primary |-> /\ "primary_branch" \in DOMAIN attrs
                  /\ EntryBranches(attrs)[k] = attrs.primary_branch]]

\* d.get(k) is falsy: the key is missing, or its value is empty
Missing(d, k) == k \notin DOMAIN d \/ d[k] = EmptyStr

\* the warnings of lines 700-707: only the branch that builds the entry without
\* branch information prints them
ImportWarnings(attrs, info, int_type) ==
  IF attrs # EmptyDict THEN << >>
  ELSE IF int_type = "github"
    THEN IF Missing(info, "owner") \/ Missing(info, "name")
           THEN << "missing owner/name" >> ELSE << >>
  ELSE IF "id" \notin DOMAIN info \/ info.id = 0
    THEN << "missing project ID" >> ELSE << >>

\* lines 649-710
BuildEntries ==
  /\ pc = "build"
  /\ all_targets' = all_targets \o NewEntries(project_attributes, target_org_id,
                                             integration_id, target_info, integration_type)
  /\ added' = added \o NewLines(project_attributes, org_i, t_i, target)
  /\ warned' = ImportWarnings(project_attributes, target_info, integration_type)
  /\ pc' = "built"
  /\ UNCHANGED << inputs, source_orgs_to_process, org_i, targets, t_i, target_info, attempt,
                  gl_log, project_id, projects, projects_failed, project_attributes,
                  skip_why, fetched, failed_orgs, output, listed >>

\* line 573: the loop moves to the next repository, after the entries of this one
\* were appended or a `continue` was taken
NextTarget ==
  /\ pc \in { "built", "skipped" }
  /\ t_i' = t_i + 1
  /\ pc' = "target"
  /\ ResetTargetLocals
  /\ UNCHANGED << inputs, source_orgs_to_process, org_i, targets, all_targets, added,
                  failed_orgs, output, listed >>

\* lines 716-721
WriteOutput ==
  /\ pc = "write"
  /\ output' = Append(output, [targets |-> all_targets])
  /\ pc' = "done"
  /\ UNCHANGED << inputs, source_orgs_to_process, org_i, targets, t_i, target_locals,
                  all_targets, added, failed_orgs, listed >>

(***************************************************************************)
(* The run with a small environment: several organizations and             *)
(* repositories.                                                           *)
(***************************************************************************)
Next ==
  \/ Start
  \/ OrgLoop
  \/ FetchTargets(Answers(TargetsBasic, MaxTargets - listed))
  \/ FilterTarget
  \/ LookupAttempt(ResponsesBasic)
  \/ AfterLookup
  \/ FetchProjects(AnswersOf(ProjectListsBasic))
  \/ BuildEntries
  \/ NextTarget
  \/ WriteOutput

Spec == Init /\ [][Next]_vars

(***************************************************************************)
(* The run over one organization with one repository, of any kind, with    *)
(* scan records of every kind.                                             *)
(***************************************************************************)
SingleListings(Catalog) == { << t >> : t \in Catalog }

InitRepo ==
  /\ source_filter \in SourceFilters
  /\ gitlab_token \in (IF source_filter = "gitlab" THEN BOOLEAN ELSE { TRUE })
  /\ all_source_orgs = SourceOrgs(1)
  /\ target_org_mapping \in Mappings(1, OrgDataAny)
  /\ InitLocals

NextRepo ==
  \/ Start
  \/ OrgLoop
  \/ FetchTargets(AnswersOf(SingleListings(TargetCatalog)))
  \/ FilterTarget
  \/ LookupAttempt(ResponsesBasic)
  \/ AfterLookup
  \/ FetchProjects(Answers(ProjectCatalog, MaxProjects))
  \/ BuildEntries
  \/ NextTarget
  \/ WriteOutput

SpecRepo == InitRepo /\ [][NextRepo]_vars

(***************************************************************************)
(* The run over one second-family repository, with every answer of the     *)
(* external lookup.                                                        *)
(***************************************************************************)
InitLookup ==
  /\ source_filter = "gitlab"
  /\ gitlab_token \in BOOLEAN
  /\ all_source_orgs = SourceOrgs(1)
  /\ target_org_mapping = (OrgNames[1] :> [orgId |-> DestOrgIds[1],
                                           integrations |-> IntegrationsAll])
  /\ InitLocals

\* the listings: one second-family repository, or two
LookupListings == { << T_gitlab >>, << T_gitlab, T_gitlab >> }

NextLookup ==
  \/ Start
  \/ OrgLoop
  \/ FetchTargets(AnswersOf(LookupListings))
  \/ FilterTarget
  \/ LookupAttempt(ResponsesAll)
  \/ AfterLookup
  \/ FetchProjects(AnswersOf(ProjectListsBasic))
  \/ BuildEntries
  \/ NextTarget
  \/ WriteOutput

SpecLookup == InitLookup /\ [][NextLookup]_vars

(***************************************************************************)
(* The end-to-end scenarios: organization Acme with one credential, one    *)
(* repository, its scan records named <repository>:<branch>.               *)
(***************************************************************************)
InitScenario ==
  /\ source_filter \in { "github", "gitlab" }
  /\ gitlab_token \in (IF source_filter = "gitlab" THEN BOOLEAN ELSE { TRUE })
  /\ all_source_orgs = SourceOrgs(1)
  /\ target_org_mapping \in { OrgNames[1] :> d : d \in { OrgDataGithub, OrgDataGitlab } }
  /\ InitLocals

NextScenario ==
  \/ Start
  \/ OrgLoop
  \/ FetchTargets(AnswersOf(SingleListings(TargetsScenario)))
  \/ FilterTarget
  \/ LookupAttempt(ResponsesBasic)
  \/ AfterLookup
  \/ FetchProjects(Answers(ProjectsScenario, MaxProjects))
  \/ BuildEntries
  \/ NextTarget
  \/ WriteOutput

SpecScenario == InitScenario /\ [][NextScenario]_vars

(***************************************************************************)
(* The run over one organization whose listings come in pages.             *)
(***************************************************************************)
\* the listings of at most n pages, each page failing or holding one of
\* ItemLists; a next link leads to a later page
Servers(ItemLists, n) ==
  UNION { { server \in [1..len -> { FailedPage } \cup
                                   { Page(d, nx) : d \in ItemLists, nx \in 0..len }] :
              \A i \in 1..len : server[i].next = 0 \/ server[i].next > i } :
          len \in 1..n }
TargetPageItems == { << >>, << T_github >>, << T_gitlab >> }
ProjectPageItems == { << >>, << P_ref_main >>, << P_branch_dev >> }

InitPages ==
  /\ source_filter \in { "github", "gitlab" }
  /\ gitlab_token = TRUE
  /\ all_source_orgs = SourceOrgs(1)
  /\ target_org_mapping = (OrgNames[1] :> [orgId |-> DestOrgIds[1],
                                           integrations |-> IntegrationsAll])
  /\ InitLocals

NextPages ==
  \/ Start
  \/ OrgLoop
  \/ FetchTargets(Servers(TargetPageItems, MaxPages))
  \/ FilterTarget
  \/ LookupAttempt(ResponsesBasic)
  \/ AfterLookup
  \/ FetchProjects(Servers(ProjectPageItems, MaxPages))
  \/ BuildEntries
  \/ NextTarget
  \/ WriteOutput

SpecPages == InitPages /\ [][NextPages]_vars

(***************************************************************************)
(* The run over one repository with any combination of family signals, the *)
(* destination holding a credential for every filter value.                *)
(***************************************************************************)
InitFamily ==
  /\ source_filter \in SourceFilters
  /\ gitlab_token = TRUE
  /\ all_source_orgs = SourceOrgs(1)
  /\ target_org_mapping = (OrgNames[1] :> [orgId |-> DestOrgIds[1],
                                           integrations |-> IntegrationsFour])
  /\ InitLocals

NextFamily ==
  \/ Start
  \/ OrgLoop
  \/ FetchTargets(AnswersOf(SingleListings(TargetsFamily)))
  \/ FilterTarget
  \/ LookupAttempt(ResponsesBasic)
  \/ AfterLookup
  \/ FetchProjects(AnswersOf(ProjectListsBasic))
  \/ BuildEntries
  \/ NextTarget
  \/ WriteOutput

SpecFamily == InitFamily /\ [][NextFamily]_vars

(***************************************************************************)
(* The run over organizations whose listings hold a repository that makes  *)
(* the processing raise, between repositories that produce entries.        *)
(***************************************************************************)
ListingsInterrupt == { << T_github, T_null, T_github >>, << T_gitlab, T_null, T_gitlab >>,
                       << T_null, T_github >>, << T_github >> }

InitInterrupt ==
  /\ source_filter \in { "github", "gitlab" }
  /\ gitlab_token = TRUE
  /\ all_source_orgs = SourceOrgs(MaxOrgs)
  /\ target_org_mapping = [n \in { OrgNames[i] : i \in 1..MaxOrgs } |->
                             [orgId |-> DestOrgIds[CHOOSE i \in 1..MaxOrgs : OrgNames[i] = n],
                              integrations |-> IntegrationsAll]]
  /\ InitLocals

NextInterrupt ==
  \/ Start
  \/ OrgLoop
  \/ FetchTargets(AnswersOf(ListingsInterrupt))
  \/ FilterTarget
  \/ LookupAttempt(ResponsesBasic)
  \/ AfterLookup
  \/ FetchProjects(AnswersOf(ProjectListsBasic))
  \/ BuildEntries
  \/ NextTarget
  \/ WriteOutput

SpecInterrupt == InitInterrupt /\ [][NextInterrupt]_vars

(***************************************************************************)
(* Properties.                                                             *)
(***************************************************************************)
\* positions in the output collection of the entries built for repository t of
\* organization o
EntriesFor(o, t) == { k \in 1..Len(added) : added[k].org = o /\ added[k].t = t }
\* the entry's addressing payload has a branch field
HasBranchField(entry) == "target" \in DOMAIN entry /\ "branch" \in DOMAIN entry.target
\* the distinct branch names the scan records of the current repository yield
Branches == ProjectBranches(projects)
\* the source families a filter value accepts
FamilyGroup(filter) == IF filter = "gitlab" THEN { "gitlab" } ELSE GithubVariants
\* the current repository went past the filter step
PastFilter ==
  \/ pc \in { "lookup", "lookup_return", "fetch_projects", "build", "built" }
  \/ pc = "skipped" /\ skip_why \notin { "source", "integration" }

\* C1: a repository whose scan records yield N > 1 distinct branches gets exactly
\* N entries, one built for each branch (and carrying it whenever the repository
\* has addressing information), and exactly one of the branches is reported as
\* primary: main if present, else master if present, else the smallest name.
C1_MultiBranch ==
  (pc = "built" /\ Cardinality(Branches) > 1) =>
    LET ks == EntriesFor(org_i, t_i)
        prim == { k \in ks : added[k].primary }
    IN  /\ Len(all_targets) = Len(added)
        /\ Cardinality(ks) = Cardinality(Branches)
        /\ \A b \in Branches : Cardinality({ k \in ks : added[k].branch = b }) = 1
        /\ \A k \in ks : target_info # EmptyDict =>
                           /\ HasBranchField(all_targets[k])
                           /\ all_targets[k].target.branch = added[k].branch
        /\ Cardinality(prim) = 1
        /\ \A k \in prim :
             added[k].branch =
               IF s_main \in Branches THEN s_main
               ELSE IF s_master \in Branches THEN s_master
               ELSE CHOOSE b \in Branches : \A c \in Branches : b = c \/ StrLess(b, c)

\* two entries, dev then main, and main (not the smallest name) is the primary
C1_Witness ==
  /\ pc = "built"
  /\ Branches = { s_main, s_dev }
  /\ Len(all_targets) = 2
  /\ added[2].primary
  /\ HasBranchField(all_targets[2])
  /\ all_targets[2].target.branch = s_main

\* C2: a repository whose scan records yield exactly one distinct branch gets
\* exactly one entry, and that entry carries the branch (every display name,
\* both families).
C2_SingleBranchCarried ==
  (pc = "built" /\ Cardinality(Branches) = 1) =>
    /\ Cardinality(EntriesFor(org_i, t_i)) = 1
    /\ \A k \in EntriesFor(org_i, t_i) :
         /\ HasBranchField(all_targets[k])
         /\ all_targets[k].target.branch \in Branches

\* C3: a repository whose scan records yield no branch (no records, a failed
\* fetch, or records contributing none) gets exactly one entry, without a
\* branch field.
C3_NoBranch ==
  (pc = "built" /\ Branches = {}) =>
    /\ Cardinality(EntriesFor(org_i, t_i)) = 1
    /\ \A k \in EntriesFor(org_i, t_i) : ~HasBranchField(all_targets[k])

\* two scan records, neither contributing a branch, and one entry
C3_Witness ==
  /\ pc = "built"
  /\ Len(projects) = 2
  /\ Branches = {}
  /\ Len(all_targets) = 1
  /\ "target" \in DOMAIN all_targets[1]

\* C4: a repository goes past the filter step only if its inferred family is in
\* the filter's family group and the destination organization has a credential
\* under the exact filter value; every entry was built for such a repository,
\* and a first-family repository under filter gitlab yields no entry.
C4_FilterAccepts ==
  /\ PastFilter =>
       /\ source_integration_type \in FamilyGroup(source_filter)
       /\ source_filter \in DOMAIN target_integrations
  /\ \A k \in 1..Len(added) :
       get_source_integration_type(added[k].repo) \in FamilyGroup(source_filter)
  /\ (/\ pc = "done"
      /\ source_filter = "gitlab"
      /\ \E i \in 1..Len(targets) :
            get_source_integration_type(targets[i]) \in GithubVariants)
       => all_targets = << >>

\* a repository inferred as github is accepted under filter github-enterprise
C4_Witness ==
  /\ pc = "fetch_projects"
  /\ source_filter = "github-enterprise"
  /\ source_integration_type = "github"

\* what gl_log says of the current call of get_gitlab_project_id
LogRequests == SelectSeq(gl_log, LAMBDA e : e.op = "request")
LogSleeps == SelectSeq(gl_log, LAMBDA e : e.op = "sleep")
LogResponses ==
  LET answers == SelectSeq(gl_log, LAMBDA e : e.op = "response")
  IN  [i \in 1..Len(answers) |-> answers[i].response]
LogStatuses == [i \in 1..Len(LogResponses) |-> LogResponses[i].status]
\* the position in gl_log of the answer to the n-th request
AnswerAt(n) ==
  CHOOSE p \in 1..Len(gl_log) :
    /\ gl_log[p].op = "response"
    /\ Cardinality({ q \in 1..p : gl_log[q].op = "response" }) = n
\* the response exposes a remaining quota below the low-water mark
LowQuota(response) == \E n \in response.remaining : n < 10
\* the 2-second cooldown such a response is followed by
CooldownOf(response) ==
  IF LowQuota(response) THEN << [op |-> "sleep", seconds |-> 2] >> ELSE << >>
AllThrottled == LogStatuses = << 429, 429, 429 >>

\* C5, as claimed: at most 3 requests, then the call returns; after three 429
\* answers it returns no identifier without sleeping after the third request,
\* and the repository gets no entry.
C5_NoSleepAfterThird ==
  /\ Len(LogRequests) <= 3
  /\ pc = "lookup" => attempt < 3
  /\ (pc = "lookup_return" /\ AllThrottled) =>
       /\ project_id = {}
       /\ gl_log[Len(gl_log)].op # "sleep"
  /\ (pc = "skipped" /\ skip_why = "lookup") => EntriesFor(org_i, t_i) = {}

\* C5, amended: at most 3 requests, then the call returns; after three 429
\* answers it returns no identifier without a backoff sleep after the third
\* request (only the 2-second cooldown follows it, and only when the third
\* answer exposes a remaining quota below 10); a repository whose lookup
\* returned no usable identifier is skipped and gets no entry.
C5_BoundedRetries ==
  /\ Len(LogRequests) <= 3
  /\ pc = "lookup" => attempt < 3
  /\ (pc = "lookup_return" /\ AllThrottled) =>
       /\ project_id = {}
       /\ SubSeq(gl_log, AnswerAt(3) + 1, Len(gl_log)) = CooldownOf(LogResponses[3])
  /\ (pc = "skipped" /\ skip_why = "lookup") =>
       /\ ~Truthy(project_id)
       /\ EntriesFor(org_i, t_i) = {}
  /\ (pc \in { "fetch_projects", "build", "built" } /\ integration_type = "gitlab") =>
       Truthy(project_id)

\* three 429 answers, the third with a low quota: the call returned None, and
\* the cooldown is the last thing it did
C5_Witness ==
  /\ pc = "skipped"
  /\ skip_why = "lookup"
  /\ AllThrottled
  /\ LowQuota(LogResponses[3])
  /\ gl_log[Len(gl_log)] = [op |-> "sleep", seconds |-> 2]
  /\ all_targets = << >>

\* C6, as claimed: a 429 then a 200: exactly two requests, one sleep, between
\* them, and the id of the 200 payload is returned.
C6_OneSleep ==
  (pc = "lookup_return" /\ LogStatuses = << 429, 200 >>) =>
    /\ Len(LogRequests) = 2
    /\ Len(LogSleeps) = 1
    /\ \E p \in 1..Len(gl_log) :
         /\ gl_log[p].op = "sleep"
         /\ AnswerAt(1) < p
         /\ p < AnswerAt(2)
    /\ project_id = LogResponses[2].id

\* C6, amended: a 429 then a 200: exactly two requests; between them one backoff
\* sleep of the Retry-After seconds (1 second without the header), preceded by the
\* 2-second cooldown when the 429 exposes a remaining quota below 10; after the
\* 200 only that cooldown, under the same condition; the id field of the 200
\* payload is returned.
C6_RetryThenSuccess ==
  (pc = "lookup_return" /\ LogStatuses = << 429, 200 >>) =>
    LET first == LogResponses[1]
        second == LogResponses[2]
        backoff == IF first.retry_after = {} THEN 1
                   ELSE CHOOSE n \in first.retry_after : TRUE
    IN  /\ gl_log = << [op |-> "request", k |-> 0], [op |-> "response", response |-> first] >>
                    \o CooldownOf(first)
                    \o << [op |-> "sleep", seconds |-> backoff] >>
                    \o << [op |-> "request", k |-> 1],
                          [op |-> "response", response |-> second] >>
                    \o CooldownOf(second)
        /\ project_id = second.id

\* a 429 with Retry-After and a low quota, then a 200 with id 42 and a low quota
C6_Witness ==
  /\ pc = "lookup_return"
  /\ LogStatuses = << 429, 200 >>
  /\ project_id = { 42 }
  /\ LogResponses[1].retry_after = { 7 }
  /\ Len(LogSleeps) = 3

\* C7: every entry has a non-empty destination organization id and a non-empty
\* integration id, and its addressing never holds both owner/name and an id.
C7_EntryWellFormed ==
  \A k \in 1..Len(all_targets) :
    /\ ~Falsy(all_targets[k].orgId)
    /\ ~Falsy(all_targets[k].integrationId)
    /\ "target" \in DOMAIN all_targets[k] =>
         ~(/\ "id" \in DOMAIN all_targets[k].target
           /\ { "owner", "name" } \cap DOMAIN all_targets[k].target # {})

\* C8: a failed fetch of an organization's repositories leaves that organization
\* without entries; a failed fetch of a repository's scan records is handled as
\* no scan records (one entry, no branch); neither ends the run: it ends only
\* after the last organization, with the output document written.
C8_FetchFailureContained ==
  /\ \A k \in 1..Len(added) : [org |-> added[k].org, at |-> 0] \notin failed_orgs
  /\ (pc = "build" /\ projects_failed) => project_attributes = EmptyDict
  /\ (pc = "built" /\ projects_failed) =>
       /\ Cardinality(EntriesFor(org_i, t_i)) = 1
       /\ \A k \in EntriesFor(org_i, t_i) : ~HasBranchField(all_targets[k])
  /\ pc \in { "start", "returned", "org", "fetch_targets", "target", "lookup",
              "lookup_return", "fetch_projects", "build", "built", "skipped", "write",
              "done" }
  /\ pc = "returned" =>
       /\ failed_orgs = {}
       /\ DOMAIN target_org_mapping = {} \/ Len(all_source_orgs) = 0
  /\ pc = "done" =>
       /\ org_i = Len(source_orgs_to_process) + 1
       /\ output = << [targets |-> all_targets] >>

\* the listing of the first organization failed, a scan-record fetch of the second
\* failed, and the document written holds the entry of the second
C8_Witness ==
  /\ pc = "done"
  /\ [org |-> 1, at |-> 0] \in failed_orgs
  /\ Len(added) = 1
  /\ added[1].org = 2
  /\ ~HasBranchField(all_targets[1])
  /\ Len(output) = 1

\* C9: every entry was built for one repository of one organization that passed
\* the filter of this run, and carries that organization's destination id and the
\* credential registered under the exact filter value.
C9_Traceable ==
  /\ Len(added) = Len(all_targets)
  /\ \A k \in 1..Len(added) :
       /\ added[k].org \in 1..Len(source_orgs_to_process)
       /\ source_orgs_to_process[added[k].org].attributes.name \in DOMAIN target_org_mapping
       /\ LET data == target_org_mapping[source_orgs_to_process[added[k].org].attributes.name]
          IN  /\ get_source_integration_type(added[k].repo) \in FamilyGroup(source_filter)
              /\ source_filter \in DOMAIN data.integrations
              /\ all_targets[k].orgId = data.orgId
              /\ all_targets[k].integrationId = data.integrations[source_filter]
       /\ added[k].org = org_i =>
            /\ added[k].t \in 1..Len(targets)
            /\ added[k].repo = targets[added[k].t]

\* an entry under filter github of an organization that also has the preferred
\* github-cloud-app credential: it carries the github credential
C9_Witness ==
  /\ pc = "done"
  /\ source_filter = "github"
  /\ \E k \in 1..Len(all_targets) :
       /\ all_targets[k].integrationId = "int-g"
       /\ "github-cloud-app" \in
            DOMAIN target_org_mapping[source_orgs_to_process[added[k].org].attributes.name].integrations

\* the position of an organization name in the source-organization file
PosInSource(name) ==
  CHOOSE p \in 1..Len(all_source_orgs) :
    /\ all_source_orgs[p].name = name
    /\ \A q \in 1..(p - 1) : all_source_orgs[q].name # name

\* C10: the entries are in traversal order: organizations in source-list order,
\* repositories in listing order, the branches of a repository in ascending
\* order; entries of different repositories are not interleaved.
C10_TraversalOrder ==
  /\ Len(added) = Len(all_targets)
  /\ \A i, j \in 1..Len(source_orgs_to_process) :
       i < j => PosInSource(source_orgs_to_process[i].attributes.name)
                  < PosInSource(source_orgs_to_process[j].attributes.name)
  /\ \A j, k \in 1..Len(added) :
       j < k =>
         \/ added[j].org < added[k].org
         \/ added[j].org = added[k].org /\ added[j].t < added[k].t
         \/ /\ added[j].org = added[k].org
            /\ added[j].t = added[k].t
            /\ StrLess(added[j].branch, added[k].branch)
  /\ \A k \in 1..Len(added) :
       /\ HasBranchField(all_targets[k]) => all_targets[k].target.branch = added[k].branch
       /\ added[k].org = org_i =>
            /\ added[k].t \in 1..Len(targets)
            /\ added[k].repo = targets[added[k].t]

\* two branches of a repository of the first organization, found as main then dev
\* and emitted as dev then main, followed by an entry of the second organization
C10_Witness ==
  /\ pc = "done"
  /\ Len(all_targets) = 3
  /\ added[1].org = 1 /\ added[2].org = 1 /\ added[3].org = 2
  /\ HasBranchField(all_targets[1]) /\ HasBranchField(all_targets[2])
  /\ all_targets[1].target.branch = s_dev
  /\ all_targets[2].target.branch = s_main

\* the current repository has been dealt with: its entries were appended, or a
\* `continue` was taken
Processed == pc \in { "built", "skipped" }

\* C11: organization Acme mapped to org-123 with credentials {github: int-1}, one
\* first-family repository acme/widgets with the two scan records widgets:main
\* and widgets:develop, filter github: exactly two entries, both org-123 / int-1
\* and owner acme / name widgets, one with branch main, reported as primary, one
\* with branch develop.
C11_ScenarioWidgets ==
  (/\ Processed
   /\ source_filter = "github"
   /\ target_org_data = OrgDataGithub
   /\ target \in { T_widgets, T_widgets_url }
   /\ Len(projects) = 2
   /\ Range(projects) = { P_widgets_main, P_widgets_develop }) =>
    LET Entry(b) == [orgId |-> "org-123", integrationId |-> "int-1", exclusionGlobs |-> "",
                     target |-> [owner |-> s_acme, name |-> s_widgets, branch |-> b]]
    IN  /\ pc = "built"
        /\ Len(all_targets) = 2
        /\ Len(added) = 2
        /\ { all_targets[1], all_targets[2] } = { Entry(s_main), Entry(s_develop) }
        /\ \A k \in 1..2 : added[k].primary <=> all_targets[k].target.branch = s_main

\* the scenario, the records listed as widgets:main then widgets:develop
C11_Witness ==
  /\ pc = "built"
  /\ source_filter = "github"
  /\ target_org_data = OrgDataGithub
  /\ target = T_widgets
  /\ projects = << P_widgets_main, P_widgets_develop >>
  /\ Len(all_targets) = 2
  /\ all_targets[2].target.branch = s_main
  /\ added[2].primary

\* C12, as claimed: a second-family repository group/sub/project under filter
\* gitlab gets zero entries and one reported skip.
C12_NestedSkipped ==
  (/\ Processed
   /\ source_filter = "gitlab"
   /\ target = T_nested) =>
    /\ pc = "skipped"
    /\ skip_why # ""
    /\ EntriesFor(org_i, t_i) = {}

\* C12, amended: group/sub/project is parsed as namespace group/sub and name
\* project and is never skipped as unparseable; under filter gitlab, with a
\* gitlab credential, it gets zero entries and one reported skip exactly when the
\* external lookup returns no usable identifier, else entries addressing the
\* identifier; a display name without '/' is the one skipped as unparseable.
C12_NestedParsed ==
  /\ (/\ Processed
      /\ source_filter = "gitlab"
      /\ "gitlab" \in DOMAIN target_integrations
      /\ target = T_nested) =>
       /\ extract_gitlab_project_info_from_display_name(display_name)
            = [namespace |-> s_group_sub, name |-> s_project]
       /\ skip_why \in { "", "lookup" }
       /\ IF Truthy(project_id)
            THEN /\ pc = "built"
                 /\ skip_why = ""
                 /\ EntriesFor(org_i, t_i) # {}
                 /\ \A k \in EntriesFor(org_i, t_i) :
                      /\ "target" \in DOMAIN all_targets[k]
                      /\ { all_targets[k].target.id } = project_id
            ELSE /\ pc = "skipped"
                 /\ skip_why = "lookup"
                 /\ EntriesFor(org_i, t_i) = {}
  /\ (/\ Processed
      /\ source_filter = "gitlab"
      /\ "gitlab" \in DOMAIN target_integrations
      /\ target = T_gitlab_flat) =>
       /\ pc = "skipped"
       /\ skip_why = "parse"
       /\ gl_log = << >>
       /\ EntriesFor(org_i, t_i) = {}

\* group/sub/project, looked up and found: one entry addressing the id
C12_Witness ==
  /\ pc = "built"
  /\ source_filter = "gitlab"
  /\ target = T_nested
  /\ Len(all_targets) = 1
  /\ all_targets[1].target.id = 42

\* the requests r are the chain of server: page 1 first, then the page each
\* answer links to, up to the first page that fails or has no next link
FollowsChain(server, r) ==
  /\ Len(r) >= 1
  /\ r[1] = 1
  /\ \A i \in 1..(Len(r) - 1) :
       /\ server[r[i]].ok
       /\ server[r[i]].next # 0
       /\ r[i + 1] = server[r[i]].next
  /\ ~server[r[Len(r)]].ok \/ server[r[Len(r)]].next = 0
\* the last request of r failed
ChainFailed(server, r) == ~server[r[Len(r)]].ok
\* the items of the pages r, in that order
ChainItems(server, r) ==
  LET F[i \in 0..Len(r)] == IF i = 0 THEN << >> ELSE F[i - 1] \o server[r[i]].data
  IN  F[Len(r)]

\* C13: a paginated fetch requests the pages of the chain once each, in chain
\* order, up to the first page without a next link, and returns the items of
\* those pages in that order; when a page request fails the caller gets none of
\* the items already fetched (the organization has no repositories and no entry;
\* the repository is handled as without scan records).
C13_Pagination ==
  /\ fetched.kind # "none" =>
       /\ FollowsChain(fetched.server, fetched.requests)
       /\ \A i, j \in 1..Len(fetched.requests) :
            i # j => fetched.requests[i] # fetched.requests[j]
  /\ fetched.kind = "targets" =>
       IF ChainFailed(fetched.server, fetched.requests)
         THEN /\ targets = << >>
              /\ all_targets = << >>
              /\ failed_orgs = { [org |-> 1, at |-> 0] }
              /\ pc \in { "org", "write", "done" }
         ELSE /\ targets = ChainItems(fetched.server, fetched.requests)
              /\ failed_orgs = {}
  /\ fetched.kind = "projects" =>
       IF ChainFailed(fetched.server, fetched.requests)
         THEN /\ projects = << >>
              /\ projects_failed
              /\ project_attributes = EmptyDict
         ELSE /\ projects = ChainItems(fetched.server, fetched.requests)
              /\ ~projects_failed
              /\ project_attributes = extract_target_attributes_from_projects(projects)

\* two pages of scan records were requested, the first held a record with a
\* branch, the second failed: the entry is built without branch
C13_Witness ==
  /\ pc = "built"
  /\ fetched.kind = "projects"
  /\ fetched.requests = << 1, 2 >>
  /\ fetched.server[1].data = << P_ref_main >>
  /\ ~fetched.server[2].ok
  /\ Len(all_targets) = 1
  /\ ~HasBranchField(all_targets[1])

\* the lookup of the current repository was answered with 404
NotFound == \E n \in 1..Len(LogResponses) : LogResponses[n].status = 404
\* what holds of the state once a lookup was answered with 404
NotFoundIsFinal ==
  NotFound =>
    /\ LogResponses[Len(LogResponses)].status = 404
    /\ \A n \in 1..(Len(LogResponses) - 1) : LogResponses[n].status # 404
    /\ \A p \in (AnswerAt(Len(LogResponses)) + 1)..Len(gl_log) : gl_log[p].op # "request"
    /\ pc \in { "lookup_return", "skipped" }
    /\ project_id = {}
    /\ pc = "skipped" => skip_why = "lookup"
    /\ EntriesFor(org_i, t_i) = {}
    /\ failed_orgs = {}

\* C14: a 404 answer to any attempt of the external lookup is the last request
\* of the call, which returns no identifier; the repository is skipped without
\* an entry, and the next step of the run is the next repository of the same
\* organization, the output collection unchanged.
C14_NotFoundTerminal ==
  [][ /\ NotFoundIsFinal'
      /\ (pc = "skipped" /\ NotFound) =>
            /\ pc' = "target"
            /\ t_i' = t_i + 1
            /\ org_i' = org_i
            /\ all_targets' = all_targets
            /\ failed_orgs' = failed_orgs ]_vars

\* the first of two repositories is skipped after a 500 and then a 404
C14_Witness ==
  /\ pc = "skipped"
  /\ skip_why = "lookup"
  /\ LogStatuses = << 500, 404 >>
  /\ t_i = 1
  /\ Len(targets) = 2

\* the branch rules of the Branch Resolver as the claim orders them: each rule is
\* tried in turn, and a rule that does not match leaves the record to the next
NameColonBranch(name) ==
  LET parts == Split(name, COLON)
      trailing == Strip(parts[Len(parts)])
  IN  IF Contains(COLON, name) /\ trailing # EmptyStr /\ ~Contains(SLASH, trailing)
        THEN trailing ELSE EmptyStr
NameParenBranch(name) ==
  IF Contains(s_paren_open, name) /\ Contains(s_paren_close, name)
    THEN Strip(Split(Split(name, s_paren_open)[2], s_paren_close)[1])
    ELSE EmptyStr
FirstMatchingRule(project) ==
  IF project.target_reference # EmptyStr THEN project.target_reference
  ELSE IF project.branch # EmptyStr THEN project.branch
  ELSE IF NameColonBranch(project.name) # EmptyStr THEN NameColonBranch(project.name)
  ELSE NameParenBranch(project.name)
\* the branch set a result of the Branch Resolver stands for
ResolvedBranches(attrs) ==
  IF attrs = EmptyDict THEN {}
  ELSE IF "branch" \in DOMAIN attrs THEN { attrs.branch }
  ELSE Range(attrs.branches)

\* C15: the branch set resolved for a repository is the set of the branches its
\* scan records contribute, each by the first rule that matches it (target
\* reference, branch field, <name>:<branch> without '/' in the branch,
\* <name> (<branch>)); a record matching no rule contributes nothing.
C15_FirstMatchWins ==
  (pc \in { "build", "built" } /\ ~projects_failed) =>
    ResolvedBranches(project_attributes)
      = { FirstMatchingRule(projects[i]) : i \in 1..Len(projects) } \ { EmptyStr }

\* C17: every entry built for a non-empty branch has an addressing payload whose
\* branch field is that branch, whatever the addressing information.
C17_BranchInPayload ==
  \A k \in 1..Len(added) :
    added[k].branch # EmptyStr =>
      /\ Len(all_targets) >= k
      /\ HasBranchField(all_targets[k])
      /\ all_targets[k].target.branch = added[k].branch

\* the entry lacks an addressing field its family requires
Incomplete(entry, family) ==
  \/ "target" \notin DOMAIN entry
  \/ family = "github" /\ (Missing(entry.target, "owner") \/ Missing(entry.target, "name"))
  \/ family = "gitlab" /\ "id" \notin DOMAIN entry.target

\* C18: a repository that went past the lookup always gets its entries, and when
\* they lack a required addressing field a warning is reported, whether it
\* resolved zero, one or several branches.
C18_IncompleteWarned ==
  pc = "built" =>
    /\ EntriesFor(org_i, t_i) # {}
    /\ \A k \in EntriesFor(org_i, t_i) :
         Incomplete(all_targets[k], integration_type) => warned # << >>

\* the attempt ended with an error status other than 404 and 429, or with a
\* network-level exception (status 0)
OtherError(response) == response.status \notin { 200, 404, 429 }
\* what gl_log holds after the answer to the n-th request
AfterAnswer(n) == SubSeq(gl_log, AnswerAt(n) + 1, Len(gl_log))
\* after the answer to the n-th request the code first did `before`, then: for
\* n < 3, slept 1 second (n = 1) or 2 seconds (n = 2) and went on to the next
\* request; for n = 3, returned no identifier
BacksOff(n, before) ==
  LET after == AfterAnswer(n)
      m == Len(before)
  IN  IF n < 3
        THEN /\ Len(after) >= m + 1
             /\ SubSeq(after, 1, m) = before
             /\ after[m + 1] = [op |-> "sleep", seconds |-> IF n = 1 THEN 1 ELSE 2]
             /\ IF Len(after) = m + 1
                  THEN pc = "lookup" /\ attempt = n
                  ELSE after[m + 2] = [op |-> "request", k |-> n]
        ELSE /\ after = before
             /\ pc # "lookup"
             /\ project_id = {}

\* C16, as claimed: attempt k = 0 or 1 ending with an other error is followed by
\* a sleep of 2^k seconds and another request; the third attempt ending that way
\* returns no identifier without sleeping.
C16_BackoffOnly ==
  \A n \in 1..Len(LogResponses) :
    OtherError(LogResponses[n]) => BacksOff(n, << >>)

\* C16, amended: the same, except that an error response exposing a remaining
\* quota below 10 is first followed by the 2-second cooldown, on the third
\* attempt too; a network-level exception is followed by no cooldown.
C16_BackoffAfterCooldown ==
  \A n \in 1..Len(LogResponses) :
    OtherError(LogResponses[n]) => BacksOff(n, CooldownOf(LogResponses[n]))

\* an exception, then two 500 answers, the last with a low quota: sleeps of 1 and
\* 2 seconds, then the cooldown, and no identifier
C16_Witness ==
  /\ pc = "skipped"
  /\ skip_why = "lookup"
  /\ LogStatuses = << 0, 500, 500 >>
  /\ ~LowQuota(LogResponses[2])
  /\ LowQuota(LogResponses[3])
  /\ [i \in 1..Len(LogSleeps) |-> LogSleeps[i].seconds] = << 1, 2, 2 >>

\* a repository of the listing is being processed
Current ==
  /\ pc \in { "target", "lookup", "lookup_return", "fetch_projects", "build", "built",
               "skipped" }
  /\ t_i \in 1..Len(targets)

\* C19, as claimed: the scan records of a repository are fetched before its
\* addressing is resolved: before any request of the external lookup, and before
\* any addressing information is set.
C19_FetchBeforeLookup ==
  (Current /\ (gl_log # << >> \/ target_info # EmptyDict)) => fetched.kind = "projects"

\* C19, amended: filtering, then addressing resolution (with the external lookup
\* for the second family), then the scan-record fetch, then branch resolution,
\* then entry building: the lookup always precedes the scan-record fetch, and a
\* repository that is skipped never has its scan records fetched.
C19_LookupBeforeFetch ==
  Current =>
    /\ (gl_log # << >> \/ target_info # EmptyDict \/ fetched.kind = "projects") =>
         PassesFilter(source_filter, source_integration_type, target_integrations)
    /\ pc \in { "lookup", "lookup_return", "skipped" } => fetched.kind # "projects"
    /\ fetched.kind = "projects" =>
         /\ pc \in { "build", "built" }
         /\ IF integration_type = "gitlab"
              THEN /\ Truthy(project_id)
                   /\ target_info = [id |-> CHOOSE n \in project_id : TRUE]
              ELSE /\ target_info = GithubTargetInfo(display_name)
                   /\ gl_log = << >>
    /\ project_attributes # EmptyDict => fetched.kind = "projects"
    /\ EntriesFor(org_i, t_i) # {} => pc = "built" /\ fetched.kind = "projects"

\* a second-family repository whose scan records are fetched after its lookup
C19_Witness ==
  /\ pc = "build"
  /\ integration_type = "gitlab"
  /\ Len(LogRequests) = 2
  /\ fetched.kind = "projects"
  /\ projects # << >>

\* C20: the source family is decided by the first signal that applies: a URL
\* with the marker gitlab; a URL with the marker github.com; an integration-type
\* attribute that is one of the four variant names; a '/' in the display name
\* (github). Without any signal the family is unknown, and the repository is
\* accepted under none of the four filter values.
C20_FamilyInference ==
  Current =>
    LET url_gitlab == Contains(s_gitlab, target.url)
        url_github == Contains(s_github_com, target.url)
        known == target.integration_type \in
                   { "github", "github-cloud-app", "github-enterprise", "gitlab" }
        slash == Contains(SLASH, display_name)
        family == source_integration_type
    IN  /\ url_gitlab => family = "gitlab"
        /\ (~url_gitlab /\ url_github) => family = "github"
        /\ (~url_gitlab /\ ~url_github /\ known) => family = target.integration_type
        /\ (~url_gitlab /\ ~url_github /\ ~known /\ slash) => family = "github"
        /\ (~url_gitlab /\ ~url_github /\ ~known /\ ~slash) =>
             /\ family = PyNone
             /\ pc \in { "target", "skipped" }
             /\ pc = "skipped" => skip_why = "source"
             /\ EntriesFor(org_i, t_i) = {}

\* a URL with both markers and a first-family attribute: second family, looked up
\* under filter gitlab
C20_Witness ==
  /\ pc = "lookup"
  /\ source_filter = "gitlab"
  /\ target.url = s_url_both
  /\ target.integration_type = "github-enterprise"

\* s is an initial segment of t
IsPrefix(s, t) == Len(s) <= Len(t) /\ SubSeq(t, 1, Len(s)) = s

\* the organization being processed is left by the except of line 712
Interrupted == failed_orgs' # failed_orgs /\ pc = "target"

\* what a step does to the output collection and the output document
CollectionKept ==
  /\ IsPrefix(all_targets, all_targets')
  /\ IsPrefix(added, added')
  /\ Interrupted =>
       /\ all_targets' = all_targets
       /\ added' = added
       /\ org_i' = org_i + 1
  /\ output' # output =>
       /\ output = << >>
       /\ output' = << [targets |-> all_targets] >>
       /\ org_i = Len(source_orgs_to_process) + 1

\* what holds of the organizations left by the except of line 712
InterruptedOrgsSilent ==
  /\ Len(added) = Len(all_targets)
  /\ \A f \in failed_orgs : \A k \in 1..Len(added) :
       added[k].org = f.org => f.at > 0 /\ added[k].t < f.at
  /\ pc = "done" => output = << [targets |-> all_targets] >>
  /\ pc \notin { "done", "returned" } => output = << >>

\* C21: the output collection only grows; when a failure interrupts an
\* organization after some of its repositories produced entries, those entries
\* stay, the repository that failed and the ones after it produce nothing, and
\* the document, written once after the last organization, holds the collection.
C21_NoRollback == []InterruptedOrgsSilent /\ [][CollectionKept]_vars

\* both organizations were listed as a/w, the repository with the null url, a/w:
\* each was interrupted at its second repository, and the document written holds
\* the two entries of each one's first repository and nothing of the third
C21_Witness ==
  /\ pc = "done"
  /\ targets = << T_github, T_null, T_github >>
  /\ failed_orgs = { [org |-> 1, at |-> 2], [org |-> 2, at |-> 2] }
  /\ Len(all_targets) = 4
  /\ \A k \in 1..4 : added[k].t = 1 /\ added[k].org = (IF k <= 2 THEN 1 ELSE 2)
  /\ output = << [targets |-> all_targets] >>

============================================================================
